---- MODULE Spec2Model ----
(***************************************************************************)
(* Model of the research agent workflow: the graph of src/src/agent/graph.py *)
(* with PlannerNode as "call_model", WebSearchNode as "web_search" and     *)
(* FinalAnswerNode as "final_answer", routed by src/src/agent/edges.py.    *)
(*                                                                         *)
(* Text is a sequence of one-character strings, so that the parsers of     *)
(* planner_node.py are computed as the code computes them.  A Python dict  *)
(* is a sequence of [key, value] records with distinct keys, in insertion  *)
(* order.  Section indices are 0-based as in the code; None is -1.         *)
(***************************************************************************)
EXTENDS Integers, Sequences, FiniteSets, TLC

VARIABLES
    pc,                     \* the node the graph runs next ("call_model", "web_search", "final_answer", "END", "failed")
    last_message,           \* state["messages"][-1]: the only element of the list any handler reads
    research_topic,         \* state["research_topic"]
    sections,               \* state["sections"]
    current_section_index,  \* state["current_section_index"]
    research_steps,         \* state["research_steps"]
    sources,                \* state["sources"]
    search_queries,         \* state["search_queries"]
    search_results,         \* state["search_results"]
    search_iterations,      \* state["search_iterations"]
    max_search_iterations,  \* state["max_search_iterations"]
    formatted_report,       \* state["formatted_report"]
    completed_sections,     \* state["completed_sections"]
    query_strings,          \* the batch the last web_search ran (its local query_strings)
    section_prompts,        \* the section-writing prompts handed to the writer model, in order
    report_prompts,         \* the final-report prompts handed to the writer model, in order, each with
                            \* the completed_sections _generate_final_report read
    node_runs,              \* number of node executions of the run so far
    search_outcomes,        \* outcomes ("answered", "failed") of the provider in the searches of the run so far
    dispatch,               \* what the search provider did in the web_search that has just run:
                            \* the mode of the dispatch, the provider's answer to each query of the
                            \* batch, and the queries whose search had not ended when async_search returned
    write_input,            \* the list the last _write_section_content read as state["sections"],
                            \* as the handler left it
    call_count,             \* get_mock_response.call_count of models/llm.py, an attribute of
                            \* the function that lives as long as the process
    llm_with_tools          \* whether setup_llm returned a model (TRUE) or None (FALSE)

vars == <<pc, last_message, research_topic, sections, current_section_index,
          research_steps, sources, search_queries, search_results,
          search_iterations, max_search_iterations, formatted_report,
          completed_sections, query_strings, section_prompts,
          report_prompts, node_runs, search_outcomes, dispatch, write_input,
          call_count, llm_with_tools>>

----------------------------------------------------------------------------
(* Bounds of the model *)

\* largest max_search_iterations a caller puts into the initial state
MaxIterationsCfg == 1
\* web_search is not run any more once search_iterations has reached this
MaxSearches == 3
\* largest number of raw results the search provider returns for one query
MaxResultsPerQuery == 1

\* the number of numbered items of a plan text handed to the parser
MaxItems == 2

\* the number of lines of a query response handed to the parser
MaxQueryLines == 2

\* the number of raw results of one query handed to the normalization
MaxRawResults == 2

\* get_mock_response is not called any more once call_count has reached this
MaxCalls == 4

None == -1
NoReport == <<>>

----------------------------------------------------------------------------
(* Text *)

Space == {" ", "\n", "\t", "\r"}
Digit == {"0", "1", "2", "3", "4", "5", "6", "7", "8", "9"}

UpperChars == <<"A", "B", "C", "D", "E", "F", "G", "H", "I", "J", "K", "L", "M",
                "N", "O", "P", "Q", "R", "S", "T", "U", "V", "W", "X", "Y", "Z">>
LowerChars == <<"a", "b", "c", "d", "e", "f", "g", "h", "i", "j", "k", "l", "m",
                "n", "o", "p", "q", "r", "s", "t", "u", "v", "w", "x", "y", "z">>

\* str.lower() on one character
LowerChar(c) ==
    IF \E i \in 1..26 : UpperChars[i] = c
    THEN LowerChars[CHOOSE i \in 1..26 : UpperChars[i] = c]
    ELSE c

\* str.lower()
Lower(s) == [i \in 1..Len(s) |-> LowerChar(s[i])]

\* the first index >= i of s that holds no character of S (Len(s)+1 when none)
SkipIn(s, i, S) ==
    CHOOSE j \in i..(Len(s) + 1) :
        /\ \A k \in i..(j - 1) : s[k] \in S
        /\ (j = Len(s) + 1 \/ s[j] \notin S)

\* the last index <= i of s that holds no character of S (0 when none)
SkipBackIn(s, i, S) ==
    CHOOSE j \in 0..i :
        /\ \A k \in (j + 1)..i : s[k] \in S
        /\ (j = 0 \/ s[j] \notin S)

\* str.strip()
Strip(s) ==
    LET a == SkipIn(s, 1, Space)
        b == SkipBackIn(s, Len(s), Space)
    IN  IF a > b THEN <<>> ELSE SubSeq(s, a, b)

\* sub in s
Contains(s, sub) ==
    \E i \in 1..(Len(s) - Len(sub) + 1) : SubSeq(s, i, i + Len(sub) - 1) = sub

\* s.startswith(c), s.endswith(c) for a one-character c
StartsWith(s, c) == Len(s) > 0 /\ s[1] = c
EndsWith(s, c) == Len(s) > 0 /\ s[Len(s)] = c

\* s.split("\n")
RECURSIVE SplitLines(_)
SplitLines(s) ==
    IF \A i \in 1..Len(s) : s[i] # "\n"
    THEN <<s>>
    ELSE LET i == CHOOSE k \in 1..Len(s) :
                      s[k] = "\n" /\ \A m \in 1..(k - 1) : s[m] # "\n"
         IN  <<SubSeq(s, 1, i - 1)>> \o SplitLines(SubSeq(s, i + 1, Len(s)))

\* where a match of \n\s*\d+\.\s+ that starts at index i of s ends (the index
\* after its last character), 0 when there is no match at i
MarkerEnd(s, i) ==
    IF i > Len(s) \/ s[i] # "\n" THEN 0
    ELSE LET a == SkipIn(s, i + 1, Space)
             b == SkipIn(s, a, Digit)
             c == IF b <= Len(s) THEN SkipIn(s, b + 1, Space) ELSE 0
         IN  IF b > a /\ b <= Len(s) /\ s[b] = "." /\ c > b + 1 THEN c ELSE 0

\* re.split(r"\n\s*\d+\.\s+", s)
RECURSIVE ReSplitMarker(_)
ReSplitMarker(s) ==
    IF \A i \in 1..Len(s) : MarkerEnd(s, i) = 0
    THEN <<s>>
    ELSE LET i == CHOOSE k \in 1..Len(s) :
                      MarkerEnd(s, k) > 0 /\ \A m \in 1..(k - 1) : MarkerEnd(s, m) = 0
         IN  <<SubSeq(s, 1, i - 1)>> \o ReSplitMarker(SubSeq(s, MarkerEnd(s, i), Len(s)))

T_research == <<"r", "e", "s", "e", "a", "r", "c", "h">>
T_false == <<"f", "a", "l", "s", "e">>
T_no == <<"n", "o">>

----------------------------------------------------------------------------
(* Entity parsing (PlannerNode) *)

\* the test on the line as written, without lower()
IsNoResearchLine_caseSensitive(line) ==
    /\ Contains(line, T_research)
    /\ (Contains(line, T_false) \/ Contains(line, T_no))

\* the test of planner_node.py:204-206 on one line of a block
IsNoResearchLine(line) ==
    /\ Contains(Lower(line), T_research)
    /\ (Contains(Lower(line), T_false) \/ Contains(Lower(line), T_no))

\* the description with the lines kept apart by line breaks
RECURSIVE DescriptionOf_lines(_)
DescriptionOf_lines(lines) ==
    IF lines = <<>> THEN <<>>
    ELSE (IF IsNoResearchLine(Head(lines)) THEN <<>> ELSE Head(lines) \o <<"\n">>)
         \o DescriptionOf_lines(Tail(lines))

\* the description accumulated over lines[1:], before the final strip()
RECURSIVE DescriptionOf(_)
DescriptionOf(lines) ==
    IF lines = <<>> THEN <<>>
    ELSE (IF IsNoResearchLine(Head(lines)) THEN <<>> ELSE Head(lines) \o <<" ">>)
         \o DescriptionOf(Tail(lines))

\* the ResearchSection built from one block of the split
SectionOfBlock(block) ==
    LET lines == SplitLines(Strip(block))
        rest == Tail(lines)
        requires_research == \A i \in 1..Len(rest) : ~IsNoResearchLine(rest[i])
    IN  [title |-> Strip(Head(lines)),
         description |-> Strip(DescriptionOf(rest)),
         content |-> <<>>,
         completed |-> ~requires_research]

\* _parse_sections without the [1:] of its loop: the text before the first
\* marker is a section as well
parse_sections_all_blocks(content) ==
    LET section_blocks == ReSplitMarker(content)
    IN  [i \in 1..Len(section_blocks) |-> SectionOfBlock(section_blocks[i])]

\* PlannerNode._parse_sections
parse_sections(content) ==
    LET section_blocks == ReSplitMarker(content)
    IN  [i \in 1..(Len(section_blocks) - 1) |-> SectionOfBlock(section_blocks[i + 1])]

\* where the prefix (?:\d+\.|\*|-) of a list item ends in line (the index after
\* it), 0 when line has no such prefix
ListPrefixEnd(line) ==
    IF line = <<>> THEN 0
    ELSE IF line[1] \in {"*", "-"} THEN 2
    ELSE LET b == SkipIn(line, 1, Digit)
         IN  IF b > 1 /\ b <= Len(line) /\ line[b] = "." THEN b + 1 ELSE 0

\* group(1) of ^(?:\d+\.|\*|-)\s*(.+)$ on line, <<>> when there is no match
ListItemText(line) ==
    LET p == ListPrefixEnd(line)
        a == IF p = 0 THEN 0 ELSE SkipIn(line, p, Space)
    IN  IF p = 0 \/ a > Len(line) THEN <<>> ELSE SubSeq(line, a, Len(line))

\* the queries one line of the response yields (none or one)
QueriesOfLine(raw, section_id) ==
    LET line == Strip(raw)
    IN  IF line = <<>> \/ StartsWith(line, "#") \/ StartsWith(line, "<") THEN <<>>
        ELSE IF ListItemText(line) # <<>>
             THEN <<[query |-> Strip(ListItemText(line)), section_id |-> section_id]>>
        ELSE IF ~StartsWith(line, "\"") /\ ~EndsWith(line, "\"")
             THEN <<[query |-> line, section_id |-> section_id]>>
        ELSE <<>>

RECURSIVE QueriesOfLines(_, _)
QueriesOfLines(lines, section_id) ==
    IF lines = <<>> THEN <<>>
    ELSE QueriesOfLine(Head(lines), section_id) \o QueriesOfLines(Tail(lines), section_id)

\* PlannerNode._parse_queries
parse_queries(content, section_id) ==
    QueriesOfLines(SplitLines(Strip(content)), section_id)

\* the index of the last section that is not completed
find_last_research_section(secs) ==
    IF \A i \in 1..Len(secs) : secs[i].completed THEN None
    ELSE (CHOOSE i \in 1..Len(secs) :
              ~secs[i].completed /\ \A k \in (i + 1)..Len(secs) : secs[k].completed) - 1

\* PlannerNode._find_first_research_section
find_first_research_section(secs) ==
    IF \A i \in 1..Len(secs) : secs[i].completed THEN None
    ELSE (CHOOSE i \in 1..Len(secs) :
              ~secs[i].completed /\ \A k \in 1..(i - 1) : secs[k].completed) - 1

----------------------------------------------------------------------------
(* Python dicts *)

DictKeys(d) == {d[i].key : i \in 1..Len(d)}

\* d.get(k, dflt)
DictGet(d, k, dflt) ==
    IF k \in DictKeys(d)
    THEN d[CHOOSE i \in 1..Len(d) : d[i].key = k].value
    ELSE dflt

\* d[k] = v
DictSet(d, k, v) ==
    IF k \in DictKeys(d)
    THEN [i \in 1..Len(d) |-> IF d[i].key = k THEN [key |-> k, value |-> v] ELSE d[i]]
    ELSE Append(d, [key |-> k, value |-> v])

----------------------------------------------------------------------------
(* What the generation engine and the search provider may answer *)

Q_abc == <<"a", "b", "c">>
Q_xy == <<"x", "y">>

Topics == {<<"X">>}

\* plan texts: no numbered item; one section; a section and a section marked
\* as needing no research (in both orders); two sections; one section marked
Plan_none == <<"p">>
Plan_A == <<"\n", "1", ".", " ", "A">>
Plan_A_Bno == Plan_A \o <<"\n", "2", ".", " ", "B", "\n", "n", "o", " ">> \o T_research
Plan_AB == Plan_A \o <<"\n", "2", ".", " ", "B">>
Plan_Ano_B == Plan_A \o <<"\n", "R", "e", "s", "e", "a", "r", "c", "h", ":", " ", "N", "o">>
                     \o <<"\n", "2", ".", " ", "B">>
Plan_Ano == Plan_A \o <<"\n">> \o T_research \o <<":", " ">> \o T_false
PlanTexts == {Plan_none, Plan_A, Plan_A_Bno, Plan_AB, Plan_Ano_B, Plan_Ano}

\* query texts: nothing to parse; one bulleted query; a plain line and a numbered query
QueryText_none == <<>>
QueryText_abc == <<"-", " ">> \o Q_abc
QueryText_xy_abc == Q_xy \o <<"\n", "1", ".", " ">> \o Q_abc
QueryTexts == {QueryText_none, QueryText_abc, QueryText_xy_abc}

SectionContents == {<<"w">>}
ReportTexts == {<<"r">>}

\* capability calls of a response: none; a search for "abc"; a search without
\* a query argument; an unrecognized capability followed by a search
ToolCall(name, args) == [name |-> name, args |-> args]
QueryArgs(q) == <<[key |-> "query", value |-> q]>>
ToolCallSeqs ==
    {<<>>,
     <<ToolCall("web_search", QueryArgs(Q_abc))>>,
     <<ToolCall("web_search", <<>>)>>,
     <<ToolCall("other", QueryArgs(Q_xy)), ToolCall("web_search", QueryArgs(Q_abc))>>}

HumanMessage(content) == [type |-> "human", content |-> content, tool_calls |-> <<>>]
AIMessage(content, tool_calls) == [type |-> "ai", content |-> content, tool_calls |-> tool_calls]
ToolMessage(content) == [type |-> "tool", content |-> content, tool_calls |-> <<>>]

\* raw results of the search provider: a result with every field, and one
\* with a content only
RawItem_full == <<[key |-> "title", value |-> <<"t">>], [key |-> "url", value |-> <<"u">>],
                  [key |-> "content", value |-> <<"c">>], [key |-> "raw_content", value |-> <<"f">>]>>
RawItem_content == <<[key |-> "content", value |-> <<"c">>]>>
RawItems == {RawItem_full, RawItem_content}

\* the sequences over S of length at most n
RECURSIVE SeqsUpTo(_, _)
SeqsUpTo(S, n) ==
    IF n = 0 THEN {<<>>}
    ELSE SeqsUpTo(S, n - 1) \cup {Append(s, x) : s \in {t \in SeqsUpTo(S, n - 1) : Len(t) = n - 1}, x \in S}

RawResultLists == SeqsUpTo(RawItems, MaxResultsPerQuery)

----------------------------------------------------------------------------
(* Routing (edges.py) *)

\* the test of edges.py:28-31: the first capability call of the message names web_search
HasSearchToolCall(msg) ==
    msg.tool_calls # <<>> /\ msg.tool_calls[1].name = "web_search"

\* _should_continue_research
should_continue_research(idx, iterations, max_iterations, results) ==
    IF idx = None THEN FALSE
    ELSE IF iterations >= max_iterations THEN TRUE
    ELSE IF results # <<>> THEN TRUE
    ELSE FALSE

\* route_to_tool_or_end with the iteration cap and the results tested before
\* the pending queries
route_cap_before_queries(msg, queries, idx, iterations, max_iterations, results) ==
    IF HasSearchToolCall(msg) THEN "web_search"
    ELSE IF should_continue_research(idx, iterations, max_iterations, results)
         THEN "final_answer"
    ELSE IF queries # <<>> THEN "web_search"
    ELSE "final_answer"

\* route_to_tool_or_end
route_to_tool_or_end(msg, queries, idx, iterations, max_iterations, results) ==
    IF HasSearchToolCall(msg) THEN "web_search"
    ELSE IF queries # <<>> THEN "web_search"
    ELSE IF should_continue_research(idx, iterations, max_iterations, results)
         THEN "final_answer"
    ELSE "final_answer"

----------------------------------------------------------------------------
(* Search (web_search.py, WebSearchNode) *)

\* one element of the list async_search returns
SearchResponse(q, items) == [query |-> q, results |-> items]

\* the dummy result of the placeholder provider (web_search.py:160-173)
PlaceholderItem(q) ==
    <<[key |-> "title", value |-> <<"Placeholder Result for ">> \o q],
      [key |-> "url", value |-> <<"https://example.com/search?q=">> \o q],
      [key |-> "content", value |-> <<"This is placeholder content for ">> \o q],
      [key |-> "raw_content", value |-> <<"This is the full placeholder content for ">> \o q]>>

\* WebSearchTool._run_placeholder_search
run_placeholder_search(q) == <<"Results for '">> \o q \o <<"': Found some information">>

\* what the provider does with the search of one query: the call raises, or
\* it returns a response with these raw results
ProviderAnswer(failed, results) == [failed |-> failed, results |-> results]
ProviderAnswers ==
    {ProviderAnswer(TRUE, <<>>)} \cup {ProviderAnswer(FALSE, r) : r \in RawResultLists}

AnyFailed(answers) == \E i \in 1..Len(answers) : answers[i].failed

\* what WebSearchTool.async_search returns for the batch qs: the placeholder
\* provider answers every query with its dummy result ("placeholder"); the
\* external provider answers every query (answers[i] for the i-th query) and
\* the responses are returned ("tavily"); or the search of some query raises,
\* asyncio.gather (web_search.py:196) raises with it and the except branch of
\* lines 155-157 gives every query of the batch the empty list ("tavily_error")
async_search(qs, mode, answers) ==
    [i \in 1..Len(qs) |->
        SearchResponse(qs[i],
            IF mode = "placeholder" THEN <<PlaceholderItem(qs[i])>>
            ELSE IF mode = "tavily" THEN answers[i].results
            ELSE <<>>)]

\* the text of the results of WebSearchTool._run_tavily_search from index k on
RECURSIVE FormatSources(_, _)
FormatSources(results, k) ==
    IF k > Len(results) THEN <<>>
    ELSE <<"Source ", ToString(k), ": ">>
            \o DictGet(results[k], "title", <<"Result ", ToString(k)>>)
            \o <<"\nURL: ">> \o DictGet(results[k], "url", <<>>)
            \o <<"\nSummary: ">> \o DictGet(results[k], "content", <<>>) \o <<"\n">>
            \o FormatSources(results, k + 1)

\* WebSearchTool._run_tavily_search on a response with these raw results
run_tavily_search(q, results) ==
    IF results # <<>>
    THEN <<"Search results for '">> \o q \o <<"':\n\n">> \o FormatSources(results, 1)
    ELSE <<"No results found for '">> \o q \o <<"'.">>

\* WebSearchTool._run with the external provider: the text of the search, or
\* the placeholder text when the search raises
run(q, answer) ==
    IF answer.failed THEN run_placeholder_search(q)
    ELSE run_tavily_search(q, answer.results)

\* the fallback of WebSearchNode.__call__ when async_search raises: one _run
\* per query, in order, each text wrapped as the one result of its query
fallback_search(qs, answers) ==
    [i \in 1..Len(qs) |->
        SearchResponse(qs[i], <<<<[key |-> "content", value |-> run(qs[i], answers[i])]>>>>)]

\* "raised": the call of async_search raises into the handler (web_search_node.py:79)
SearchModes == {"placeholder", "tavily", "tavily_error", "raised"}

\* the dispatches that can happen: the placeholder provider makes no call; the
\* batch is returned only when no search raised; when one raises, gather
\* raises at once and the other searches of the batch may still be running
PossibleDispatch(mode, answers, unfinished) ==
    /\ mode = "placeholder" =>
          \A i \in 1..Len(answers) : answers[i] = ProviderAnswer(FALSE, <<>>)
    /\ mode = "tavily" => ~AnyFailed(answers)
    /\ mode = "tavily_error" => AnyFailed(answers)
    /\ IF mode = "tavily_error"
       THEN \E i \in 1..Len(answers) : answers[i].failed /\ i \notin unfinished
       ELSE unfinished = {}

NoDispatch == [mode |-> "none", answers |-> <<>>, unfinished |-> {}]

\* whether the provider answered some search of the batch or failed on all
SearchOutcome(mode, answers) ==
    IF mode # "placeholder" /\ \A i \in 1..Len(answers) : answers[i].failed
    THEN "failed" ELSE "answered"

\* the formatted item with an empty full_content when the result has no raw_content
FormattedItem_noFallback(item) ==
    [title |-> DictGet(item, "title", <<"Untitled">>),
     url |-> DictGet(item, "url", <<>>),
     content |-> DictGet(item, "content", <<>>),
     full_content |-> DictGet(item, "raw_content", <<>>)]

\* one formatted item of _process_search_results
FormattedItem(item) ==
    [title |-> DictGet(item, "title", <<"Untitled">>),
     url |-> DictGet(item, "url", <<>>),
     content |-> DictGet(item, "content", <<>>),
     full_content |-> DictGet(item, "raw_content", DictGet(item, "content", <<>>))]

\* WebSearchNode._process_search_results
RECURSIVE process_search_results(_)
process_search_results(results) ==
    IF results = <<>> THEN <<>>
    ELSE LET n == Len(results)
             last == results[n]
         IN  DictSet(process_search_results(SubSeq(results, 1, n - 1)),
                     last.query,
                     [k \in 1..Len(last.results) |-> FormattedItem(last.results[k])])

\* the queries to run when a tool call without a "query" argument gives none
QueriesToRun_requireArg(queries, msg) ==
    IF queries # <<>> THEN queries
    ELSE IF msg.tool_calls # <<>> /\ "query" \in DictKeys(msg.tool_calls[1].args)
         THEN <<[query |-> DictGet(msg.tool_calls[1].args, "query", <<>>), section_id |-> None]>>
    ELSE <<>>

\* the queries WebSearchNode.__call__ runs (web_search_node.py:49-61)
QueriesToRun(queries, msg) ==
    IF queries # <<>> THEN queries
    ELSE IF msg.tool_calls # <<>>
         THEN <<[query |-> DictGet(msg.tool_calls[1].args, "query", <<>>), section_id |-> None]>>
    ELSE <<>>

\* research_steps holding the entries of the last batch only
AppendSearchedFor_replacing(steps, qs) ==
    [i \in 1..Len(qs) |-> <<"Searched for: ">> \o qs[i]]

\* research_steps after web_search_node.py:100-101: one entry per query of the batch
AppendSearchedFor(steps, qs) ==
    steps \o [i \in 1..Len(qs) |-> <<"Searched for: ">> \o qs[i]]

\* sources extended with one entry for the whole batch
ExtendSources_once(srcs, qs) ==
    IF qs = <<>> THEN srcs ELSE Append(srcs, <<"Search results for: ">> \o qs[1])

\* sources after web_search_node.py:102: one entry per query of the batch
ExtendSources(srcs, qs) ==
    srcs \o [i \in 1..Len(qs) |-> <<"Search results for: ">> \o qs[i]]

\* search_iterations raised by the number of queries of the batch
IterationsAfterSearch_perQuery ==
    search_iterations + Len(QueriesToRun(search_queries, last_message))

\* search_iterations of web_search_node.py:108
IterationsAfterSearch == search_iterations + 1

\* the content of the ToolMessage of a search (web_search_node.py:110-114)
ResultContent(qs, results) ==
    [i \in 1..Len(qs) |-> [query |-> qs[i], found |-> Len(results[i].results)]]

----------------------------------------------------------------------------
(* Writing and compiling (FinalAnswerNode) *)

NoResultsPlaceholder ==
    <<"No search results available. Please write based on general knowledge.">>

\* the text final_answer_node.py:78-87 builds: one header per key of
\* search_results, each followed by one entry per result of that key
ResultsText(results) ==
    [i \in 1..Len(results) |->
        [query |-> results[i].key,
         entries |-> [k \in 1..Len(results[i].value) |->
                        [title |-> results[i].value[k].title,
                         url |-> results[i].value[k].url,
                         content |-> results[i].value[k].content]]]]

\* formatted_results of final_answer_node.py:78-93: that text, or the
\* placeholder when it is the empty string
FormattedResults(results) ==
    IF ResultsText(results) = <<>>
    THEN [placeholder |-> TRUE, text |-> NoResultsPlaceholder, blocks |-> <<>>]
    ELSE [placeholder |-> FALSE, text |-> <<>>, blocks |-> ResultsText(results)]

\* updated_sections of final_answer_node.py:113-120 (idx is 0-based)
UpdatedSections_resetOthers(secs, idx, content) ==
    [i \in 1..Len(secs) |->
        [title |-> secs[i].title, description |-> secs[i].description,
         content |-> IF i = idx + 1 THEN content ELSE secs[i].content,
         completed |-> (i = idx + 1)]]

UpdatedSections(secs, idx, content) ==
    [i \in 1..Len(secs) |->
        IF i = idx + 1
        THEN [title |-> secs[i].title, description |-> secs[i].description,
              content |-> content, completed |-> TRUE]
        ELSE secs[i]]

\* final_answer_node.py:113-120 with updated_sections bound to the list of
\* the state itself instead of a copy of it
SectionsUpdatedInPlace(secs, idx, content) ==
    [sections |-> UpdatedSections(secs, idx, content),
     updated_sections |-> UpdatedSections(secs, idx, content)]

\* the two lists after final_answer_node.py:113-120: the list read from the
\* state, which the assignment does not reach because updated_sections is a
\* copy of it (line 114), and updated_sections
SectionsAfterUpdate(secs, idx, content) ==
    [sections |-> secs, updated_sections |-> UpdatedSections(secs, idx, content)]

\* the first index after idx, whether or not its section is completed
NextSectionIndex_unchecked(secs, idx) ==
    IF idx + 2 <= Len(secs) THEN idx + 1 ELSE None

\* no next section, whatever the list holds
NextSectionIndex_none(secs, idx) == None

\* next_section_index of final_answer_node.py:122-127
NextSectionIndex(secs, idx) ==
    IF \A i \in (idx + 2)..Len(secs) : secs[i].completed THEN None
    ELSE (CHOOSE i \in (idx + 2)..Len(secs) :
              ~secs[i].completed /\ \A k \in (idx + 2)..(i - 1) : secs[k].completed) - 1

\* the update of final_answer_node.py:140-142 with the queries and the
\* results left as they are
SectionReset_kept ==
    [search_queries |-> search_queries, search_results |-> search_results,
     search_iterations |-> 0]

\* what _write_section_content sets for the next section (final_answer_node.py:140-142)
SectionReset ==
    [search_queries |-> <<>>, search_results |-> <<>>, search_iterations |-> 0]

\* completed_sections compiled with no fallback to sections
SectionsToCompile_noFallback(completed, secs) == completed

\* the list _generate_final_report compiles (final_answer_node.py:163-167)
SectionsToCompile(completed, secs) == IF completed = <<>> THEN secs ELSE completed

\* sections_content of final_answer_node.py:169-173
SectionsContent(secs) ==
    [i \in 1..Len(secs) |-> [index |-> i, title |-> secs[i].title, content |-> secs[i].content]]

\* FinalAnswerNode.format_research_report
format_research_report(topic, final_report, steps, srcs) ==
    [topic |-> topic, report |-> final_report, research_process |-> steps, sources |-> srcs]

\* the value of a channel declared Annotated[List, operator.add] (state.py:58)
\* after a node returned `returned` for it while the channel held `held`
AddReducer(held, returned) == held \o returned

----------------------------------------------------------------------------
(* The run *)

Init ==
    /\ pc = "call_model"
    /\ \E topic \in Topics : last_message = HumanMessage(topic)
    /\ research_topic = <<>>
    /\ sections = <<>>
    /\ current_section_index = None
    /\ research_steps = <<>>
    /\ sources = <<>>
    /\ search_queries = <<>>
    /\ search_results = <<>>
    /\ search_iterations = 0
    /\ max_search_iterations \in 0..MaxIterationsCfg
    /\ formatted_report = NoReport
    /\ completed_sections = <<>>
    /\ query_strings = <<>>
    /\ section_prompts = <<>>
    /\ report_prompts = <<>>
    /\ node_runs = 0
    /\ search_outcomes = {}
    /\ dispatch = NoDispatch
    /\ write_input = <<>>
    /\ call_count = 0
    /\ llm_with_tools = TRUE

\* PlannerNode._create_research_plan, reached from __call__ when sections is empty
create_research_plan ==
    /\ pc = "call_model"
    /\ sections = <<>>
    /\ \E content \in PlanTexts, tool_calls \in ToolCallSeqs :
         LET response == AIMessage(content, tool_calls)
             parsed == parse_sections(content)
             idx == find_first_research_section(parsed)
         IN  /\ last_message' = response
             /\ research_topic' = IF research_topic = <<>> THEN last_message.content
                                  ELSE research_topic
             /\ sections' = parsed
             /\ current_section_index' = idx
             /\ pc' = route_to_tool_or_end(response, search_queries, idx, search_iterations,
                                           max_search_iterations, search_results)
    /\ node_runs' = node_runs + 1
    /\ UNCHANGED <<research_steps, sources, search_queries, search_results,
                   search_iterations, max_search_iterations, formatted_report,
                   completed_sections, query_strings, section_prompts, report_prompts,
                   search_outcomes, write_input>>
    /\ dispatch' = NoDispatch
    /\ UNCHANGED <<call_count, llm_with_tools>>

\* PlannerNode._generate_queries, reached from __call__ when sections is not
\* empty and current_section_index is set
generate_queries ==
    /\ pc = "call_model"
    /\ sections # <<>>
    /\ current_section_index # None
    /\ IF current_section_index >= Len(sections)
       THEN /\ pc' = route_to_tool_or_end(last_message, search_queries, current_section_index,
                                          search_iterations, max_search_iterations, search_results)
            /\ UNCHANGED <<last_message, search_queries>>
       ELSE \E content \in QueryTexts, tool_calls \in ToolCallSeqs :
              LET response == AIMessage(content, tool_calls)
                  queries == parse_queries(content, current_section_index)
              IN  /\ last_message' = response
                  /\ search_queries' = queries
                  /\ pc' = route_to_tool_or_end(response, queries, current_section_index,
                                                search_iterations, max_search_iterations,
                                                search_results)
    /\ completed_sections' = AddReducer(completed_sections, completed_sections)
    /\ node_runs' = node_runs + 1
    /\ UNCHANGED <<research_topic, sections, current_section_index, research_steps, sources,
                   search_results, search_iterations, max_search_iterations, formatted_report,
                   query_strings, section_prompts, report_prompts, search_outcomes, write_input>>
    /\ dispatch' = NoDispatch
    /\ UNCHANGED <<call_count, llm_with_tools>>

\* PlannerNode.__call__ when sections is not empty and no section is current:
\* the messages go to the model and its response is appended
planner_pass_through ==
    /\ pc = "call_model"
    /\ sections # <<>>
    /\ current_section_index = None
    /\ \E content \in QueryTexts, tool_calls \in ToolCallSeqs :
         LET response == AIMessage(content, tool_calls)
         IN  /\ last_message' = response
             /\ pc' = route_to_tool_or_end(response, search_queries, current_section_index,
                                           search_iterations, max_search_iterations,
                                           search_results)
    /\ node_runs' = node_runs + 1
    /\ UNCHANGED <<research_topic, sections, current_section_index, research_steps, sources,
                   search_queries, search_results, search_iterations, max_search_iterations,
                   formatted_report, completed_sections, query_strings, section_prompts,
                   report_prompts, search_outcomes, write_input>>
    /\ dispatch' = NoDispatch
    /\ UNCHANGED <<call_count, llm_with_tools>>

\* the model's invoke raises inside PlannerNode: nothing catches it and the run fails
planner_fails ==
    /\ pc = "call_model"
    /\ ~(sections # <<>> /\ current_section_index # None
         /\ current_section_index >= Len(sections))
    /\ pc' = "failed"
    /\ node_runs' = node_runs + 1
    /\ UNCHANGED <<last_message, research_topic, sections, current_section_index,
                   research_steps, sources, search_queries, search_results,
                   search_iterations, max_search_iterations, formatted_report,
                   completed_sections, query_strings, section_prompts, report_prompts,
                   search_outcomes, write_input>>
    /\ dispatch' = NoDispatch
    /\ UNCHANGED <<call_count, llm_with_tools>>

\* WebSearchNode.__call__
web_search ==
    /\ pc = "web_search"
    /\ search_iterations < MaxSearches
    /\ LET queries == QueriesToRun(search_queries, last_message)
           qs == [i \in 1..Len(queries) |-> queries[i].query]
       IN  IF queries = <<>>
           THEN /\ dispatch' = NoDispatch
                /\ UNCHANGED <<last_message, research_steps, sources, search_results,
                               search_iterations, query_strings, completed_sections,
                               search_outcomes>>
           ELSE \E mode \in SearchModes, answers \in [1..Len(qs) -> ProviderAnswers],
                   unfinished \in SUBSET (1..Len(qs)) :
                  LET results == IF mode = "raised" THEN fallback_search(qs, answers)
                                 ELSE async_search(qs, mode, answers)
                  IN  /\ PossibleDispatch(mode, answers, unfinished)
                      /\ dispatch' = [mode |-> mode, answers |-> answers,
                                      unfinished |-> unfinished]
                      /\ query_strings' = qs
                      /\ search_outcomes' = search_outcomes \cup {SearchOutcome(mode, answers)}
                      /\ research_steps' = AppendSearchedFor(research_steps, qs)
                      /\ sources' = ExtendSources(sources, qs)
                      /\ search_results' = process_search_results(results)
                      /\ search_iterations' = IterationsAfterSearch
                      /\ last_message' = ToolMessage(ResultContent(qs, results))
                      /\ completed_sections' = AddReducer(completed_sections, completed_sections)
    /\ pc' = "call_model"
    /\ node_runs' = node_runs + 1
    /\ UNCHANGED <<research_topic, sections, current_section_index, search_queries,
                   max_search_iterations, formatted_report, section_prompts, report_prompts,
                   write_input>>
    /\ UNCHANGED <<call_count, llm_with_tools>>

\* FinalAnswerNode._write_section_content, reached from __call__ when
\* current_section_index is set and inside sections; it ends in
\* _generate_final_report when no later section is incomplete
write_section_content ==
    /\ pc = "final_answer"
    /\ current_section_index # None
    /\ current_section_index < Len(sections)
    /\ \E section_content \in SectionContents, final_report \in ReportTexts :
         LET current_section == sections[current_section_index + 1]
             prompt == [section_title |-> current_section.title,
                        section_description |-> current_section.description,
                        search_results |-> FormattedResults(search_results)]
             written == SectionsAfterUpdate(sections, current_section_index, section_content)
             updated_sections == written.updated_sections
             next_section_index == NextSectionIndex(updated_sections, current_section_index)
             completed == Append(completed_sections, updated_sections[current_section_index + 1])
             compiled == SectionsToCompile(completed, updated_sections)
         IN  /\ section_prompts' = Append(section_prompts, prompt)
             /\ sections' = updated_sections
             /\ current_section_index' = next_section_index
             /\ completed_sections' = AddReducer(completed, completed)
             /\ write_input' = written.sections
             /\ search_queries' = SectionReset.search_queries
             /\ search_results' = SectionReset.search_results
             /\ search_iterations' = SectionReset.search_iterations
             /\ IF next_section_index = None
                THEN /\ report_prompts' = Append(report_prompts,
                            [topic |-> research_topic,
                             completed_sections |-> completed,
                             sections_content |-> SectionsContent(compiled)])
                     /\ formatted_report' = <<format_research_report(
                            research_topic, final_report, research_steps, sources)>>
                ELSE UNCHANGED <<report_prompts, formatted_report>>
    /\ pc' = "END"
    /\ node_runs' = node_runs + 1
    /\ UNCHANGED <<last_message, research_topic, research_steps, sources,
                   max_search_iterations, query_strings, search_outcomes>>
    /\ dispatch' = NoDispatch
    /\ UNCHANGED <<call_count, llm_with_tools>>

\* FinalAnswerNode._generate_final_report, reached from __call__ when no
\* section is current (or the index is past the end of sections)
generate_final_report ==
    /\ pc = "final_answer"
    /\ ~(current_section_index # None /\ current_section_index < Len(sections))
    /\ \E final_report \in ReportTexts :
         LET compiled == SectionsToCompile(completed_sections, sections)
         IN  /\ report_prompts' = Append(report_prompts,
                    [topic |-> research_topic,
                     completed_sections |-> completed_sections,
                     sections_content |-> SectionsContent(compiled)])
             /\ formatted_report' = <<format_research_report(
                    research_topic, final_report, research_steps, sources)>>
    /\ completed_sections' = AddReducer(completed_sections, completed_sections)
    /\ pc' = "END"
    /\ node_runs' = node_runs + 1
    /\ UNCHANGED <<last_message, research_topic, sections, current_section_index,
                   research_steps, sources, search_queries, search_results,
                   search_iterations, max_search_iterations, query_strings, section_prompts,
                   search_outcomes, write_input>>
    /\ dispatch' = NoDispatch
    /\ UNCHANGED <<call_count, llm_with_tools>>

\* the writer model's invoke raises and the node stores a report all the same
writer_fails_with_report ==
    /\ pc = "final_answer"
    /\ pc' = "failed"
    /\ formatted_report' = <<format_research_report(research_topic, <<>>, research_steps, sources)>>
    /\ node_runs' = node_runs + 1
    /\ UNCHANGED <<last_message, research_topic, sections, current_section_index,
                   research_steps, sources, search_queries, search_results,
                   search_iterations, max_search_iterations,
                   completed_sections, query_strings, section_prompts, report_prompts,
                   search_outcomes, write_input>>
    /\ dispatch' = NoDispatch
    /\ UNCHANGED <<call_count, llm_with_tools>>

\* the writer model's invoke raises inside FinalAnswerNode: the run fails
\* and nothing the node computed is written to the state
writer_fails ==
    /\ pc = "final_answer"
    /\ pc' = "failed"
    /\ node_runs' = node_runs + 1
    /\ UNCHANGED <<last_message, research_topic, sections, current_section_index,
                   research_steps, sources, search_queries, search_results,
                   search_iterations, max_search_iterations, formatted_report,
                   completed_sections, query_strings, section_prompts, report_prompts,
                   search_outcomes, write_input>>
    /\ dispatch' = NoDispatch
    /\ UNCHANGED <<call_count, llm_with_tools>>

Next ==
    \/ create_research_plan
    \/ generate_queries
    \/ planner_pass_through
    \/ planner_fails
    \/ web_search
    \/ write_section_content
    \/ generate_final_report
    \/ writer_fails

Spec == Init /\ [][Next]_vars

Terminated == pc \in {"END", "failed"}

\* the plans whose sections a caller of the compiled graph may hand over
GivenPlans == {Plan_none, Plan_A}

\* the graph of studio/research_graph.py is invoked with an input state of
\* the caller's choice: the topic message, a list of sections and any
\* current_section_index from None up to one past the end of the list
InitGiven ==
    /\ pc = "call_model"
    /\ \E topic \in Topics :
         /\ last_message = HumanMessage(topic)
         /\ research_topic = topic
    /\ \E plan \in GivenPlans : sections = parse_sections(plan)
    /\ current_section_index \in {None} \cup 0..Len(sections)
    /\ research_steps = <<>>
    /\ sources = <<>>
    /\ search_queries = <<>>
    /\ search_results = <<>>
    /\ search_iterations = 0
    /\ max_search_iterations \in 0..MaxIterationsCfg
    /\ formatted_report = NoReport
    /\ completed_sections = <<>>
    /\ query_strings = <<>>
    /\ section_prompts = <<>>
    /\ report_prompts = <<>>
    /\ node_runs = 0
    /\ search_outcomes = {}
    /\ dispatch = NoDispatch
    /\ write_input = <<>>
    /\ call_count = 0
    /\ llm_with_tools = TRUE

SpecGiven == InitGiven /\ [][Next]_vars

----------------------------------------------------------------------------
(* The parsers of PlannerNode applied to texts of the generation engine *)

\* a line of an item's body, with whether it holds "research" (in any case)
\* together with "false" or "no"
BodyLine(text, marker) == [text |-> text, marker |-> marker]
Line_d == BodyLine(<<"d">>, FALSE)
Line_ResearchNo == BodyLine(<<"R", "e", "s", "e", "a", "r", "c", "h", ":", " ", "N", "o">>, TRUE)
Line_no_research == BodyLine(<<"n", "o", " ", "r", "e", "s", "e", "a", "r", "c", "h">>, TRUE)
Line_RESEARCH_false == BodyLine(<<"R", "E", "S", "E", "A", "R", "C", "H", " ", "f", "a", "l", "s", "e">>, TRUE)
Line_research == BodyLine(<<"r", "e", "s", "e", "a", "r", "c", "h">>, FALSE)
Line_no == BodyLine(<<"n", "o">>, FALSE)

\* the bodies an item of a plan may have
ItemBodies ==
    {<<>>, <<Line_d>>, <<Line_ResearchNo>>, <<Line_d, Line_RESEARCH_false>>,
     <<Line_research, Line_no>>, <<Line_no_research, Line_d>>}

\* what precedes the first item: nothing (the item is on the very first
\* line), a line break, a line of introduction
PlanLeads == {<<>>, <<"\n">>, <<"p", "\n">>}

\* the title of the i-th item
ItemTitle(i) == <<UpperChars[i]>>

RECURSIVE RenderBody(_)
RenderBody(body) ==
    IF body = <<>> THEN <<>>
    ELSE <<"\n">> \o Head(body).text \o RenderBody(Tail(body))

\* the i-th item: its number, a period, a blank, its title, its body lines
RenderItem(i, body) == <<ToString(i), ".", " ">> \o ItemTitle(i) \o RenderBody(body)

RECURSIVE RenderItems(_, _)
RenderItems(bodies, k) ==
    IF k = 0 THEN <<>>
    ELSE RenderItems(bodies, k - 1)
            \o (IF k = 1 THEN <<>> ELSE <<"\n">>) \o RenderItem(k, bodies[k])

\* a plan text of Len(bodies) numbered items
RenderPlan(lead, bodies) == lead \o RenderItems(bodies, Len(bodies))

\* the plans of 1..MaxItems numbered items with the text of each
PlanRenderings ==
    {[lead |-> lead, bodies |-> bodies, text |-> RenderPlan(lead, bodies)] :
        lead \in PlanLeads,
        bodies \in UNION {[1..k -> ItemBodies] : k \in 1..MaxItems}}

\* a line of a query response with the query it stands for (<<>>: none)
QueryLine(text, query) == [text |-> text, query |-> query]
QueryLines ==
    {QueryLine(<<>>, <<>>),
     QueryLine(<<"#", " ", "h">>, <<>>),
     QueryLine(<<"<", "t", ">">>, <<>>),
     QueryLine(<<"1", ".", " ", "a", "b", "c">>, Q_abc),
     QueryLine(<<"*", " ", "a", "b", "c">>, Q_abc),
     QueryLine(<<"-", "x", "y">>, Q_xy),
     QueryLine(<<"x", "y">>, Q_xy),
     QueryLine(<<"\"", "x", "y", "\"">>, <<>>),
     QueryLine(<<"\"", "x", "y">>, <<"\"", "x", "y">>),
     QueryLine(<<"x", "y", "\"">>, <<"x", "y", "\"">>)}

RECURSIVE RenderQueryLines(_)
RenderQueryLines(lines) ==
    IF lines = <<>> THEN <<>>
    ELSE IF Len(lines) = 1 THEN lines[1].text
    ELSE lines[1].text \o <<"\n">> \o RenderQueryLines(Tail(lines))

\* the query responses of up to MaxQueryLines lines with the text of each
QueryRenderings ==
    {[lines |-> lines, text |-> RenderQueryLines(lines)] :
        lines \in SeqsUpTo(QueryLines, MaxQueryLines)}

\* the texts handed to the parsers: plans, query responses, blank text and
\* text without any list marker
ParseTexts ==
    {r.text : r \in PlanRenderings} \cup {r.text : r \in QueryRenderings}
        \cup {<<>>, <<" ", "\n">>, Plan_none}

InitParse ==
    /\ pc = "parse"
    /\ \E content \in ParseTexts : last_message = AIMessage(content, <<>>)
    /\ research_topic = <<>>
    /\ sections = <<>>
    /\ current_section_index \in {0, 1}
    /\ research_steps = <<>>
    /\ sources = <<>>
    /\ search_queries = <<>>
    /\ search_results = <<>>
    /\ search_iterations = 0
    /\ max_search_iterations = 0
    /\ formatted_report = NoReport
    /\ completed_sections = <<>>
    /\ query_strings = <<>>
    /\ section_prompts = <<>>
    /\ report_prompts = <<>>
    /\ node_runs = 0
    /\ search_outcomes = {}
    /\ dispatch = NoDispatch
    /\ write_input = <<>>
    /\ call_count = 0
    /\ llm_with_tools = TRUE

\* sections = self._parse_sections(response.content) (planner_node.py:102)
apply_parse_sections ==
    /\ pc = "parse"
    /\ sections' = parse_sections(last_message.content)
    /\ pc' = "parsed_sections"
    /\ UNCHANGED <<last_message, research_topic, current_section_index, research_steps,
                   sources, search_queries, search_results, search_iterations,
                   max_search_iterations, formatted_report, completed_sections,
                   query_strings, section_prompts, report_prompts, node_runs,
                   search_outcomes, dispatch, write_input>>
    /\ UNCHANGED <<call_count, llm_with_tools>>

\* queries = self._parse_queries(response.content, current_section_index)
\* (planner_node.py:166)
apply_parse_queries ==
    /\ pc = "parse"
    /\ search_queries' = parse_queries(last_message.content, current_section_index)
    /\ pc' = "parsed_queries"
    /\ UNCHANGED <<last_message, research_topic, sections, current_section_index,
                   research_steps, sources, search_results, search_iterations,
                   max_search_iterations, formatted_report, completed_sections,
                   query_strings, section_prompts, report_prompts, node_runs,
                   search_outcomes, dispatch, write_input>>
    /\ UNCHANGED <<call_count, llm_with_tools>>

\* the title and the description of each section written as a numbered item
RECURSIVE RenderSections(_, _)
RenderSections(secs, k) ==
    IF k = 0 THEN <<>>
    ELSE RenderSections(secs, k - 1)
            \o <<"\n", ToString(k), ".", " ">> \o secs[k].title
            \o <<"\n">> \o secs[k].description

\* _parse_sections applied to the rendering of the sections it returned
reparse_sections ==
    /\ pc = "parsed_sections"
    /\ sections' = parse_sections(RenderSections(sections, Len(sections)))
    /\ pc' = "reparsed_sections"
    /\ UNCHANGED <<last_message, research_topic, current_section_index, research_steps,
                   sources, search_queries, search_results, search_iterations,
                   max_search_iterations, formatted_report, completed_sections,
                   query_strings, section_prompts, report_prompts, node_runs,
                   search_outcomes, dispatch, write_input>>
    /\ UNCHANGED <<call_count, llm_with_tools>>

NextParse ==
    \/ apply_parse_sections
    \/ apply_parse_queries
    \/ reparse_sections

SpecParse == InitParse /\ [][NextParse]_vars

----------------------------------------------------------------------------
(* The normalization of WebSearchNode applied to raw provider responses *)

\* raw results that lack fields: one with no field at all, one with a title
\* and a url only
RawItem_none == <<>>
RawItem_titled == <<[key |-> "title", value |-> <<"t">>], [key |-> "url", value |-> <<"u">>]>>
RawItemsToProcess == RawItems \cup {RawItem_none, RawItem_titled}

\* the batches whose responses are normalized: one query, two queries, the
\* same query twice
BatchesToProcess == {<<Q_abc>>, <<Q_abc, Q_xy>>, <<Q_abc, Q_abc>>}

InitResults ==
    /\ pc = "process_search_results"
    /\ last_message = HumanMessage(<<>>)
    /\ query_strings \in BatchesToProcess
    /\ \E answers \in [1..Len(query_strings) ->
                         {ProviderAnswer(FALSE, r) :
                              r \in SeqsUpTo(RawItemsToProcess, MaxRawResults)}] :
         dispatch = [mode |-> "tavily", answers |-> answers, unfinished |-> {}]
    /\ research_topic = <<>>
    /\ sections = <<>>
    /\ current_section_index = None
    /\ research_steps = <<>>
    /\ sources = <<>>
    /\ search_queries = <<>>
    /\ search_results = <<>>
    /\ search_iterations = 0
    /\ max_search_iterations = 0
    /\ formatted_report = NoReport
    /\ completed_sections = <<>>
    /\ section_prompts = <<>>
    /\ report_prompts = <<>>
    /\ node_runs = 0
    /\ search_outcomes = {}
    /\ write_input = <<>>
    /\ call_count = 0
    /\ llm_with_tools = TRUE

\* processed_results = self._process_search_results(search_results)
\* (web_search_node.py:90)
apply_process_search_results ==
    /\ pc = "process_search_results"
    /\ search_results' = process_search_results(
                             async_search(query_strings, dispatch.mode, dispatch.answers))
    /\ pc' = "processed"
    /\ UNCHANGED <<last_message, research_topic, sections, current_section_index,
                   research_steps, sources, search_queries, search_iterations,
                   max_search_iterations, formatted_report, completed_sections,
                   query_strings, section_prompts, report_prompts, node_runs,
                   search_outcomes, dispatch, write_input, call_count, llm_with_tools>>

NextResults == apply_process_search_results

SpecResults == InitResults /\ [][NextResults]_vars

----------------------------------------------------------------------------
(* The graph of graph.py over the functions of nodes.py, with the mock *)
(* responses of models/llm.py when no model is set up                  *)

T_mock_query == <<"research agent information">>

\* get_mock_response when call_count has the value count
get_mock_response(count) ==
    IF count = 0
    THEN AIMessage(<<"I'll search for that information.">>,
                   <<ToolCall("web_search", QueryArgs(T_mock_query))>>)
    ELSE AIMessage(<<"Based on the search results, here's what I found">>, <<>>)

\* route_to_tool_or_end of nodes.py
nodes_route_to_tool_or_end(msg) ==
    IF msg.tool_calls # <<>> /\ msg.tool_calls[1].name = "web_search"
    THEN "web_search"
    ELSE "final_answer"

\* the queries run_agent is called with
RunQueries == Topics \cup {Q_abc}

\* the state run_agent of graph.py starts a run with, in a process that has
\* not called get_mock_response yet
InitMock ==
    /\ pc = "call_model"
    /\ \E query \in RunQueries : last_message = HumanMessage(query)
    /\ research_topic = <<>>
    /\ sections = <<>>
    /\ current_section_index = None
    /\ research_steps = <<>>
    /\ sources = <<>>
    /\ search_queries = <<>>
    /\ search_results = <<>>
    /\ search_iterations = 0
    /\ max_search_iterations = 0
    /\ formatted_report = NoReport
    /\ completed_sections = <<>>
    /\ query_strings = <<>>
    /\ section_prompts = <<>>
    /\ report_prompts = <<>>
    /\ node_runs = 0
    /\ search_outcomes = {}
    /\ dispatch = NoDispatch
    /\ write_input = <<>>
    /\ call_count = 0
    /\ llm_with_tools \in BOOLEAN

\* call_model of nodes.py
call_model ==
    /\ pc = "call_model"
    /\ IF llm_with_tools
       THEN /\ \E content \in ReportTexts, tool_calls \in ToolCallSeqs :
                 /\ last_message' = AIMessage(content, tool_calls)
                 /\ pc' = nodes_route_to_tool_or_end(AIMessage(content, tool_calls))
            /\ call_count' = call_count
       ELSE /\ call_count < MaxCalls
            /\ last_message' = get_mock_response(call_count)
            /\ pc' = nodes_route_to_tool_or_end(get_mock_response(call_count))
            /\ call_count' = call_count + 1
    /\ UNCHANGED <<research_topic, sections, current_section_index, research_steps, sources,
                   search_queries, search_results, search_iterations, max_search_iterations,
                   formatted_report, completed_sections, query_strings, section_prompts,
                   report_prompts, node_runs, search_outcomes, dispatch, write_input,
                   llm_with_tools>>

\* run_web_search of nodes.py
run_web_search ==
    /\ pc = "web_search"
    /\ Len(research_steps) < MaxSearches
    /\ LET query == DictGet(last_message.tool_calls[1].args, "query", <<>>)
       IN  /\ research_steps' = Append(research_steps, <<"Searched for: ">> \o query)
           /\ sources' = Append(sources, <<"Web search results">>)
           /\ last_message' = ToolMessage(run_placeholder_search(query))
    /\ pc' = "call_model"
    /\ UNCHANGED <<research_topic, sections, current_section_index, search_queries,
                   search_results, search_iterations, max_search_iterations,
                   formatted_report, completed_sections, query_strings, section_prompts,
                   report_prompts, node_runs, search_outcomes, dispatch, write_input,
                   call_count, llm_with_tools>>

\* final_answer of nodes.py: the state is returned as it is
final_answer ==
    /\ pc = "final_answer"
    /\ pc' = "END"
    /\ completed_sections' = AddReducer(completed_sections, completed_sections)
    /\ UNCHANGED <<last_message, research_topic, sections, current_section_index,
                   research_steps, sources, search_queries, search_results,
                   search_iterations, max_search_iterations, formatted_report,
                   query_strings, section_prompts, report_prompts, node_runs,
                   search_outcomes, dispatch, write_input, call_count, llm_with_tools>>

\* run_agent of graph.py called again in the same process: a new initial
\* state, and nothing done about get_mock_response.call_count
run_agent ==
    /\ pc = "END"
    /\ \E query \in RunQueries : last_message' = HumanMessage(query)
    /\ research_steps' = <<>>
    /\ sources' = <<>>
    /\ pc' = "call_model"
    /\ UNCHANGED <<research_topic, sections, current_section_index, search_queries,
                   search_results, search_iterations, max_search_iterations,
                   formatted_report, completed_sections, query_strings, section_prompts,
                   report_prompts, node_runs, search_outcomes, dispatch, write_input,
                   call_count, llm_with_tools>>

NextMock ==
    \/ call_model
    \/ run_web_search
    \/ final_answer
    \/ run_agent

SpecMock == InitMock /\ [][NextMock]_vars

----------------------------------------------------------------------------
(* Properties *)

AllCompleted(secs) == \A i \in 1..Len(secs) : secs[i].completed

\* a step of WebSearchNode that ran a batch
SearchStep == pc = "web_search" /\ pc' = "call_model" /\ search_iterations' # search_iterations

\* a step of PlannerNode that returned
PlannerStep == pc = "call_model" /\ pc' # "failed"

\* a step of FinalAnswerNode that wrote a section
WriteStep == pc = "final_answer" /\ Len(section_prompts') = Len(section_prompts) + 1

\* a step of FinalAnswerNode that compiled the report
CompileStep == pc = "final_answer" /\ Len(report_prompts') = Len(report_prompts) + 1

\* C1: search_iterations never exceeds max_search_iterations, so that Search
\* is entered at most max_search_iterations times for one section.
C1_IterationCap == search_iterations <= max_search_iterations

\* The node executions a run may take when the iteration cap bounds it: one
\* Plan and one Compile, and for every section at most max_search_iterations
\* searches, each followed by a Research, around one Research and one Write.
RunBudget ==
    2 + (IF Len(sections) = 0 THEN 1 ELSE Len(sections)) * (2 * max_search_iterations + 2)

\* C2: every run terminates whatever the generation engine answers: a run
\* that has executed as many nodes as the iteration cap allows for its plan
\* has ended.
C2_RunIsBounded == node_runs >= RunBudget => Terminated

\* C3: a response whose capability call names the search action with
\* {query: "abc"} sends the run to Search, and the batch searched next is
\* exactly {"abc"}, whatever queries the text of the response parsed into.
C3_ToolCallIsSearched ==
    /\ [](last_message.type = "ai" /\ HasSearchToolCall(last_message) => pc = "web_search")
    /\ [][(SearchStep /\ HasSearchToolCall(last_message)
             /\ last_message.tool_calls[1].args = QueryArgs(Q_abc))
          => {query_strings'[i] : i \in 1..Len(query_strings')} = {Q_abc}]_vars

\* C4: with max_search_iterations = 0 no run enters Search and every section
\* is written with the "no results" placeholder.
C4_NoSearchWithZeroCap ==
    max_search_iterations = 0 =>
        /\ pc # "web_search"
        /\ search_iterations = 0
        /\ \A i \in 1..Len(section_prompts) : section_prompts[i].search_results.placeholder

\* some capability call of the message names web_search
AnyCallNamesSearch(msg) ==
    \E i \in 1..Len(msg.tool_calls) : msg.tool_calls[i].name = "web_search"

\* the first capability call of the message names web_search
FirstCallNamesSearch(msg) ==
    Len(msg.tool_calls) > 0 /\ msg.tool_calls[1].name = "web_search"

\* C5 as stated: after Research the route is Search when the latest response
\* carries a search capability call, otherwise Search when pendingQueries is
\* not empty, otherwise Write.
C5_RoutingAnyCall ==
    [][PlannerStep =>
         pc' = IF AnyCallNamesSearch(last_message') THEN "web_search"
               ELSE IF search_queries' # <<>> THEN "web_search"
               ELSE "final_answer"]_vars

\* C5 as amended: after Research the route is Search when the first capability
\* call of the latest response names the search action, otherwise Search when
\* pendingQueries is not empty, otherwise Write (whatever the iteration count
\* and the results); no state without a search capability call and without
\* pending queries routes to Search.
C5_Routing ==
    [][PlannerStep =>
         /\ pc' = IF FirstCallNamesSearch(last_message') THEN "web_search"
                  ELSE IF search_queries' # <<>> THEN "web_search"
                  ELSE "final_answer"
         /\ (~AnyCallNamesSearch(last_message') /\ search_queries' = <<>>
                => pc' # "web_search")]_vars

\* C5 witness: a response whose second capability call names the search
\* action, with nothing parsed from it, has been routed to Write.
C5_Witness ==
    /\ pc = "final_answer"
    /\ last_message.type = "ai"
    /\ AnyCallNamesSearch(last_message)
    /\ ~FirstCallNamesSearch(last_message)
    /\ search_queries = <<>>

\* C6: Search merges into search_results: every key present before the step
\* is present after it, and only keys of the batch are added.
C6_ResultsAreMerged ==
    [][SearchStep =>
         /\ DictKeys(search_results) \subseteq DictKeys(search_results')
         /\ DictKeys(search_results') \ DictKeys(search_results)
                \subseteq {query_strings'[i] : i \in 1..Len(query_strings')}]_vars

\* C7: after every Search pendingQueries is empty, so that Research runs only
\* with a current section and no pending query.
C7_QueriesClearedBySearch ==
    /\ [][SearchStep => search_queries' = <<>>]_vars
    /\ [](pc = "call_model" /\ sections # <<>> /\ current_section_index # None
            => search_queries = <<>>)

\* C8: a Write that leaves an incomplete section is followed by Research for
\* the new current section; only a Write that leaves none compiles.
C8_WriteLoopsBack ==
    [][WriteStep =>
         /\ (~AllCompleted(sections') => pc' = "call_model" /\ current_section_index' # None)
         /\ (CompileStep => AllCompleted(sections'))]_vars

\* C9: a run that ends without a generation-engine error has a final report
\* and no unwritten section.
C9_EndHasReport ==
    pc = "END" => formatted_report # NoReport /\ AllCompleted(sections)

\* C10: when Compile runs, the completed_sections it reads holds every
\* section of the plan exactly once, the sections the plan marked as needing
\* no research included.
C10_CompletedHoldsEverySection ==
    \A p \in 1..Len(report_prompts) :
        /\ Len(report_prompts[p].completed_sections) = Len(sections)
        /\ \A i \in 1..Len(sections) :
               \E j \in 1..Len(sections) : report_prompts[p].completed_sections[j] = sections[i]

\* every search of the run so far met a failing search provider
EverySearchFailed ==
    search_outcomes = {"failed"}

\* the search results a writing prompt carries hold no result
NoResultIn(prompt) ==
    \A b \in 1..Len(prompt.search_results.blocks) :
        prompt.search_results.blocks[b].entries = <<>>

\* C11: when every call to the search provider fails, no failure leaves
\* Search, every Write sees no result for any query, and a run that ends
\* without a generation error has compiled the report.
C11_FailedSearchStillCompiles ==
    /\ [][pc = "web_search" => pc' = "call_model"]_vars
    /\ [](EverySearchFailed =>
            /\ \A i \in 1..Len(section_prompts) : NoResultIn(section_prompts[i])
            /\ (pc = "END" => report_prompts # <<>>))

\* C12: the two logs start empty, every Search appends to each of them exactly
\* one entry per query of its batch, whatever the provider answered, and no
\* other step changes them; so at the end of a run sources has one entry per
\* attempted query.
C12_OneLogEntryPerQuery ==
    /\ research_steps = <<>> /\ sources = <<>>
    /\ [][SearchStep =>
            LET n == Len(query_strings')
            IN  /\ Len(research_steps') = Len(research_steps) + n
                /\ Len(sources') = Len(sources) + n
                /\ SubSeq(research_steps', 1, Len(research_steps)) = research_steps
                /\ SubSeq(sources', 1, Len(sources)) = sources
                /\ \A i \in 1..n :
                     /\ research_steps'[Len(research_steps) + i]
                            = <<"Searched for: ">> \o query_strings'[i]
                     /\ sources'[Len(sources) + i]
                            = <<"Search results for: ">> \o query_strings'[i]]_vars
    /\ [][~SearchStep => UNCHANGED <<research_steps, sources>>]_vars

\* C12 witness: a batch of one query and then a batch of two queries met a
\* failing provider, and both logs hold three entries.
C12_Witness ==
    /\ Len(query_strings) = 2
    /\ search_outcomes = {"failed"}
    /\ search_iterations = 2
    /\ Len(sources) = 3
    /\ Len(research_steps) = 3

\* C13: current_section_index is absent or a valid index of a section that
\* is not completed.
C13_CurrentIndexIsIncomplete ==
    current_section_index # None =>
        /\ current_section_index \in 0..(Len(sections) - 1)
        /\ ~sections[current_section_index + 1].completed

\* C13 witness: Plan skipped a section that needs no research and made the
\* second section current.
C13_Witness ==
    /\ section_prompts = <<>>
    /\ Len(sections) = 2
    /\ sections[1].completed
    /\ current_section_index = 1

\* C14: current_section_index is the least index of a section that is not
\* completed, over the whole list, or absent when there is none.
C14_CurrentIndexIsLeast ==
    /\ (current_section_index = None) = AllCompleted(sections)
    /\ current_section_index # None =>
          /\ current_section_index \in 0..(Len(sections) - 1)
          /\ ~sections[current_section_index + 1].completed
          /\ \A k \in 1..current_section_index : sections[k].completed

\* C14 witness: the first of two research sections has been written and the
\* second one is current.
C14_Witness ==
    /\ Len(section_prompts) = 1
    /\ Len(sections) = 2
    /\ sections[1].completed
    /\ sections[1].content # <<>>
    /\ current_section_index = 1

\* C15: after every Write search_queries and search_results are empty and
\* search_iterations is 0.
C15_WriteResets ==
    [][WriteStep =>
         /\ search_queries' = <<>>
         /\ search_results' = <<>>
         /\ search_iterations' = 0]_vars

\* C15 witness: a section was written from search results and the state
\* holds no query, no result and no iteration any more.
C15_Witness ==
    /\ Len(section_prompts) = 1
    /\ ~section_prompts[1].search_results.placeholder
    /\ search_queries = <<>>
    /\ search_results = <<>>
    /\ search_iterations = 0

\* C16: a Write leaves the list it read untouched, and the list it returns
\* equals that list at every index but the current one, where the section
\* keeps its title and description, carries the written content and is
\* completed.
C16_WriteCopiesSections ==
    [][WriteStep =>
         /\ write_input' = sections
         /\ Len(sections') = Len(sections)
         /\ \A k \in 1..Len(sections) :
              IF k = current_section_index + 1
              THEN /\ sections'[k].title = sections[k].title
                   /\ sections'[k].description = sections[k].description
                   /\ sections'[k].content \in SectionContents
                   /\ sections'[k].completed
              ELSE sections'[k] = sections[k]]_vars

\* C16 witness: the first of two sections was written; the list the Write
\* read still has it incomplete and the list of the state has it completed.
C16_Witness ==
    /\ Len(section_prompts) = 1
    /\ Len(write_input) = 2
    /\ ~write_input[1].completed
    /\ sections[1].completed
    /\ sections[2] = write_input[2]

\* the list a report prompt was compiled from
CompiledFrom(prompt) ==
    IF prompt.completed_sections = <<>> THEN sections ELSE prompt.completed_sections

\* C17: the compiled content has one block per section, in order, of
\* sections when completed_sections is empty and of completed_sections
\* otherwise.
C17_CompileFallsBackToSections ==
    \A p \in 1..Len(report_prompts) :
        LET from == CompiledFrom(report_prompts[p])
            blocks == report_prompts[p].sections_content
        IN  /\ Len(blocks) = Len(from)
            /\ \A i \in 1..Len(from) :
                 /\ blocks[i].index = i
                 /\ blocks[i].title = from[i].title
                 /\ blocks[i].content = from[i].content

\* C17 witness: a report was compiled with completed_sections empty from a
\* plan that has a section.
C17_Witness ==
    /\ Len(report_prompts) = 1
    /\ report_prompts[1].completed_sections = <<>>
    /\ sections # <<>>
    /\ Len(report_prompts[1].sections_content) = Len(sections)

\* C18: a plan with no section, or with no section that requires research,
\* is followed by Compile: Plan routes to the final answer, which compiles
\* and writes nothing, so that no Search and no second Plan occurs.
C18_EmptyPlanCompiles ==
    /\ [][(pc = "call_model" /\ sections = <<>> /\ pc' # "failed" /\ AllCompleted(sections'))
            => pc' = "final_answer"]_vars
    /\ [][(pc = "final_answer" /\ AllCompleted(sections) /\ pc' # "failed")
            => CompileStep /\ ~WriteStep /\ pc' = "END"]_vars

\* C19: a generation failure ends the run: no report is ever set in a failed
\* run and no step follows the failure.
C19_GenerationFailureAborts ==
    /\ [](pc = "failed" => formatted_report = NoReport)
    /\ [][pc = "failed" => UNCHANGED vars]_vars

\* C19 witness: the generation engine failed at Plan.
C19_Witness ==
    /\ pc = "failed"
    /\ sections = <<>>
    /\ node_runs = 1
    /\ formatted_report = NoReport

\* C20: a section written when no search result exists for it, because no
\* search ran or every query returned the empty list, is written from the
\* "no results" placeholder.
C20_PlaceholderWithoutResults ==
    \A i \in 1..Len(section_prompts) :
        NoResultIn(section_prompts[i]) => section_prompts[i].search_results.placeholder

\* a step of WebSearchNode that dispatched a batch of at least one query
RanBatch == pc = "web_search" /\ dispatch'.mode # "none"

\* the formatted results search_results holds for the i-th query of the last batch
ResultsOfQuery(results, i) == DictGet(results, query_strings[i], <<>>)

C22_BatchKeepsAnsweredQueries ==
    [][(RanBatch /\ dispatch'.mode \in {"tavily", "tavily_error"}) =>
         /\ dispatch'.unfinished = {}
         /\ \A i \in 1..Len(query_strings') :
              LET value == DictGet(search_results', query_strings'[i], <<>>)
                  answer == dispatch'.answers[i]
              IN  ~answer.failed =>
                     value = [k \in 1..Len(answer.results) |-> FormattedItem(answer.results[k])]]_vars

\* C29: a step of the final answer invokes the generation engine at most
\* once: a Write does not compile the report in the same step.
C29_OneGenerationCallPerStep ==
    [][pc = "final_answer" =>
         (Len(section_prompts') - Len(section_prompts))
            + (Len(report_prompts') - Len(report_prompts)) <= 1]_vars

\* C30: a Search that runs at least one query raises search_iterations by
\* exactly 1 and leaves sections, current_section_index, completed_sections,
\* research_topic and formatted_report as they are; search_iterations goes
\* down only at a Write, to 0.
C30_SearchFrame ==
    /\ [][RanBatch =>
            /\ search_iterations' = search_iterations + 1
            /\ UNCHANGED <<sections, current_section_index, completed_sections,
                           research_topic, formatted_report>>]_vars
    /\ [][search_iterations' < search_iterations =>
            WriteStep /\ search_iterations' = 0]_vars

\* C30 witness: the second search of a run dispatched two queries in the
\* fallback and the count is 2.
C30_Witness ==
    /\ dispatch.mode = "raised"
    /\ Len(dispatch.answers) = 2
    /\ search_iterations = 2
    /\ sections # <<>>

\* current_section_index points past the end of sections
IndexOutOfBounds ==
    /\ current_section_index # None
    /\ current_section_index >= Len(sections)

\* C23: a node invoked with current_section_index >= len(sections) leaves the
\* state as it is: no generation call, no search, no section written, no
\* final report.
C23_OutOfBoundsIsNoOp ==
    [][(IndexOutOfBounds /\ pc \in {"call_model", "web_search", "final_answer"}) =>
         /\ UNCHANGED <<last_message, research_topic, sections, current_section_index,
                        research_steps, sources, search_queries, search_results,
                        search_iterations, formatted_report, completed_sections>>
         /\ UNCHANGED <<section_prompts, report_prompts>>
         /\ dispatch'.mode = "none"]_vars

\* the text handed to the parsers
ParsedText == last_message.content

\* a sequence of section records
IsSectionSeq(secs) ==
    /\ DOMAIN secs = 1..Len(secs)
    /\ \A i \in 1..Len(secs) :
         DOMAIN secs[i] = {"title", "description", "content", "completed"}

\* a sequence of query records
IsQuerySeq(queries) ==
    /\ DOMAIN queries = 1..Len(queries)
    /\ \A i \in 1..Len(queries) : DOMAIN queries[i] = {"query", "section_id"}

\* C24: for every text the two parsers return a sequence; the empty text and
\* a text without any numbered marker give no section, the empty text gives
\* no query.
C24_ParsersReturnSequences ==
    /\ pc = "parsed_sections" =>
         /\ IsSectionSeq(sections)
         /\ ParsedText = <<>> => sections = <<>>
         /\ (\A i \in 1..Len(ParsedText) : ParsedText[i] \notin Digit) => sections = <<>>
    /\ pc = "parsed_queries" =>
         /\ IsQuerySeq(search_queries)
         /\ ParsedText = <<>> => search_queries = <<>>

\* C24 witness: the empty text was parsed into no section.
C24_Witness ==
    /\ pc = "parsed_sections"
    /\ ParsedText = <<>>
    /\ sections = <<>>

\* a step that parses the rendering of the parsed sections again
ReparseStep == pc = "parsed_sections" /\ pc' = "reparsed_sections"

\* C25 as stated: parsing the rendering of the parsed titles and descriptions
\* gives the same titles and the same completed flags.
C25_RoundTripKeepsFlags ==
    [][ReparseStep =>
         /\ Len(sections') = Len(sections)
         /\ \A i \in 1..Len(sections) :
              /\ sections'[i].title = sections[i].title
              /\ sections'[i].completed = sections[i].completed]_vars

\* C25: parsing the rendering of the parsed titles and descriptions gives
\* the same titles; a section comes back completed, and with an empty
\* description, exactly when its description, now one line, holds "research"
\* with "false" or "no", whatever its flag was; otherwise it comes back not
\* completed with the same description.
C25_RoundTripKeepsTitles ==
    [][ReparseStep =>
         /\ Len(sections') = Len(sections)
         /\ \A i \in 1..Len(sections) :
              /\ sections'[i].title = sections[i].title
              /\ sections'[i].completed = IsNoResearchLine(sections[i].description)
              /\ sections'[i].description
                   = IF IsNoResearchLine(sections[i].description) THEN <<>>
                     ELSE sections[i].description]_vars

\* C25 witness: a section parsed as completed came back not completed, and a
\* section parsed as not completed came back completed.
C25_Witness ==
    /\ pc = "reparsed_sections"
    /\ Len(sections) = 2
    /\ LET first == parse_sections(ParsedText)
       IN  /\ Len(first) = 2
           /\ first[1].completed /\ ~sections[1].completed
           /\ ~first[2].completed /\ sections[2].completed

\* C26: a plan text of k numbered items, the first one on the very first line
\* or after a line break, is parsed into k sections, the i-th titled with the
\* first line of the i-th item.
C26_OneSectionPerItem ==
    pc = "parsed_sections" =>
        \A r \in PlanRenderings :
            r.text = ParsedText =>
                /\ Len(sections) = Len(r.bodies)
                /\ \A i \in 1..Len(sections) : sections[i].title = ItemTitle(i)

\* the lines of a body that are no marker lines, joined by blanks
RECURSIVE JoinKept(_)
JoinKept(body) ==
    IF body = <<>> THEN <<>>
    ELSE IF Head(body).marker THEN JoinKept(Tail(body))
    ELSE LET rest == JoinKept(Tail(body))
         IN  Head(body).text \o (IF rest = <<>> THEN <<>> ELSE <<" ">> \o rest)

\* C27: a section is created completed exactly when a line after its title
\* holds "research" (in any case) with "false" or "no"; the marker lines are
\* not in the description; every section is created with empty content.
C27_MarkerLinesSetCompleted ==
    pc = "parsed_sections" =>
        \A r \in PlanRenderings :
            (r.text = ParsedText /\ r.lead # <<>>) =>
                /\ Len(sections) = Len(r.bodies)
                /\ \A i \in 1..Len(sections) :
                     /\ sections[i].completed
                          = (\E k \in 1..Len(r.bodies[i]) : r.bodies[i][k].marker)
                     /\ sections[i].description = JoinKept(r.bodies[i])
                     /\ sections[i].content = <<>>

\* C27 witness: the first of two sections was created completed from a body
\* with a marker line and another line, the second one not completed.
C27_Witness ==
    /\ pc = "parsed_sections"
    /\ Len(sections) = 2
    /\ sections[1].completed /\ sections[1].description = Line_d.text
    /\ ~sections[2].completed /\ sections[2].description # <<>>

\* the queries a sequence of lines stands for
RECURSIVE QueriesFor(_, _)
QueriesFor(lines, section_id) ==
    IF lines = <<>> THEN <<>>
    ELSE (IF Head(lines).query = <<>> THEN <<>>
          ELSE <<[query |-> Head(lines).query, section_id |-> section_id]>>)
         \o QueriesFor(Tail(lines), section_id)

\* C28: the queries are, in line order, one per accepted line (a prefixed
\* line gives its remainder, any other line not wrapped in quotation marks
\* gives itself, also a line with a quotation mark at one end only), each
\* with the given section id.
C28_OneQueryPerAcceptedLine ==
    pc = "parsed_queries" =>
        \A r \in QueryRenderings :
            r.text = ParsedText =>
                search_queries = QueriesFor(r.lines, current_section_index)

\* s is a prefix of t
IsPrefix(s, t) == Len(s) <= Len(t) /\ SubSeq(t, 1, Len(s)) = s

\* C31: every Write extends completed_sections by exactly one element, the
\* section just written, and no other step changes it.
C31_WriteAppendsOneSection ==
    /\ [][WriteStep =>
            completed_sections'
                = Append(completed_sections, sections'[current_section_index + 1])]_vars
    /\ [][~WriteStep => completed_sections' = completed_sections]_vars

\* C32: across every step each of research_steps and sources is a prefix of
\* its new value, only a Search that ran a batch changes them, and the two
\* always have the same length.
C32_LogsAppendOnly ==
    /\ [](Len(research_steps) = Len(sources))
    /\ [][/\ IsPrefix(research_steps, research_steps')
          /\ IsPrefix(sources, sources')
          /\ (research_steps' # research_steps \/ sources' # sources) => RanBatch]_vars

\* C32 witness: a run ended with a report after two searches that logged
\* three entries in each log.
C32_Witness ==
    /\ pc = "END"
    /\ formatted_report # NoReport
    /\ Len(research_steps) = 3
    /\ Len(sources) = 3

\* C33: once sections is not empty no plan is made again and no step changes
\* the number, order, titles or descriptions of the sections or takes a
\* completed flag back; a Write writes a section that was not completed.
C33_SectionsFixedAfterPlan ==
    /\ [](sections # <<>> => ~ENABLED create_research_plan)
    /\ [][sections # <<>> =>
            /\ Len(sections') = Len(sections)
            /\ \A i \in 1..Len(sections) :
                 /\ sections'[i].title = sections[i].title
                 /\ sections'[i].description = sections[i].description
                 /\ sections[i].completed => sections'[i].completed
                 /\ sections[i].completed => sections'[i].content = sections[i].content]_vars
    /\ [][WriteStep => ~sections[current_section_index + 1].completed]_vars

\* C33 witness: of two sections the first was created completed and has no
\* content, the second was written.
C33_Witness ==
    /\ pc = "END"
    /\ Len(sections) = 2
    /\ sections[1].completed /\ sections[1].content = <<>>
    /\ sections[2].completed /\ sections[2].content # <<>>
    /\ Len(section_prompts) = 1

\* C34: whenever formatted_report is set no section is current and every
\* section is completed; no step is taken from a state that has a report, so
\* the report is set once and the state stays as it is.
C34_ReportIsFinal ==
    /\ [](formatted_report # NoReport =>
            current_section_index = None /\ AllCompleted(sections))
    /\ [][formatted_report = NoReport]_vars

\* C34 witness: the report was set by the Write of the second of two
\* sections, the only one that was not completed.
C34_Witness ==
    /\ formatted_report # NoReport
    /\ Len(sections) = 2
    /\ Len(section_prompts) = 1
    /\ Len(report_prompts) = 1
    /\ sections[2].content # <<>>

\* C35: the blocks handed to Compile are the sections of the plan, one block
\* per section in plan order, the sections that need no research included.
C35_CompileCoversPlan ==
    \A p \in 1..Len(report_prompts) :
        LET blocks == report_prompts[p].sections_content
        IN  /\ Len(blocks) = Len(sections)
            /\ \A i \in 1..Len(sections) : blocks[i].title = sections[i].title

C37_SearchHasQuery ==
    pc = "web_search" => QueriesToRun(search_queries, last_message) # <<>>

\* C37 witness: the search node is entered with no pending query and a tool
\* call that carries no query argument.
C37_Witness ==
    /\ pc = "web_search"
    /\ search_queries = <<>>
    /\ last_message.tool_calls # <<>>
    /\ last_message.tool_calls[1].args = <<>>

\* the field of a raw result, or dflt when the result has no such field
FieldOr(item, field, dflt) ==
    IF \E k \in 1..Len(item) : item[k].key = field
    THEN item[CHOOSE k \in 1..Len(item) : item[k].key = field].value
    ELSE dflt

\* the index of the response that the key of the i-th query ends up with
IsLastOf(qs, i) == \A j \in (i + 1)..Len(qs) : qs[j] # qs[i]

\* C38: every run with the mock responses makes its one search and then
\* answers, whatever ran in the process before it.
C38_EveryMockRunSearchesOnce ==
    (~llm_with_tools /\ pc = "END") =>
        /\ Len(research_steps) = 1
        /\ last_message = get_mock_response(1)

\* C39: the normalization keeps the number and the order of the raw results
\* of each query; a missing title becomes "Untitled", a missing url or
\* content the empty text, full_content is raw_content when the result has
\* one and the content otherwise.
C39_NormalizationFillsFields ==
    pc = "processed" =>
        \A i \in 1..Len(query_strings) :
            IsLastOf(query_strings, i) =>
                LET raw == dispatch.answers[i].results
                    items == DictGet(search_results, query_strings[i], <<"none">>)
                IN  /\ Len(items) = Len(raw)
                    /\ \A k \in 1..Len(raw) :
                         /\ items[k].title = FieldOr(raw[k], "title", <<"Untitled">>)
                         /\ items[k].url = FieldOr(raw[k], "url", <<>>)
                         /\ items[k].content = FieldOr(raw[k], "content", <<>>)
                         /\ items[k].full_content
                              = FieldOr(raw[k], "raw_content", FieldOr(raw[k], "content", <<>>))

\* C39 witness: two raw results of one query were normalized in order, the
\* first with every field, the second with a content only.
C39_Witness ==
    /\ pc = "processed"
    /\ query_strings = <<Q_abc, Q_xy>>
    /\ dispatch.answers[2].results = <<RawItem_full, RawItem_content>>
    /\ LET items == DictGet(search_results, Q_xy, <<>>)
       IN  /\ Len(items) = 2
           /\ items[1].full_content = <<"f">>
           /\ items[2].title = <<"Untitled">>
           /\ items[2].full_content = <<"c">>

====
